---- MODULE Spec2Model ----
(***************************************************************************)
(* Model of the monitoring agent's subscription hub (api/hub: Hub, its     *)
(* control loop Run and the per-Ressource fan-out goroutine                *)
(* HandleRessource) and of the controller (dock/controller: Init, called   *)
(* by API.Run, the event loop HandleEvents and the drain of the inventory  *)
(* broadcast that Init starts).                                            *)
(*                                                                         *)
(* The hub is checked under Spec, from the moment Run is running, under    *)
(* FairSpec where the scheduling of its goroutines matters, and under      *)
(* SpecWide where a third connection is open; the controller is checked    *)
(* under SpecCtl, from the call of Init.                                   *)
(***************************************************************************)
EXTENDS Naturals, Integers, Sequences, FiniteSets, TLC

\* ------------------------------------------------------------------------
\* Bounds of the model
\* ------------------------------------------------------------------------
MaxSamples == 1    \* samples one underlying stream produces
QueueCap == 1      \* frames a Client.In holds before a send blocks
MaxDemands == 4    \* messages the clients send to the hub's endpoints
MaxEvents == 2     \* engine events the controller consumes
MaxBatches == 2    \* batches the container inventory broadcasts

\* ------------------------------------------------------------------------
\* Universe
\* ------------------------------------------------------------------------
Clients == {"A", "B", "C"}       \* the connections the hub can hear from
TwoClients == {"A", "B"}         \* the connections that are open under Spec
Known == {"c1"}                  \* ids the inventory resolves
CIDs == Known \cup {"cx"}        \* "cx" is an id the inventory does not know
Kinds == {"metrics", "logs"}

EventTypes == {"container", "image"}
Statuses == {"start", "stop", "destroy", "die"}
EventIDs == {"c1", "c2"}

NilArr == 0       \* the nil slice's backing array
ZeroRes == 0      \* &Ressource{}: a Ressource that matches no (cid, event)
NoRes == 0        \* Hub.Ressource returned exists = false

VARIABLES
    hubpc,      \* position of Hub.Run: "select", or inside Subscribe: "sub_lock" (before
                \* h.mutex.Lock() has announced a writer) or "sub_wait" (announced,
                \* waiting for the readers to leave)
    dem,        \* the Demand Subscribe is handling
    hres,       \* Subscribe's local res (NoRes when exists = false)
    reg,        \* h.Ressources: container -> slice header [arr, len, cap]
    heap,       \* backing arrays of the registry slices
    res,        \* the Ressource objects, with their fan-out goroutine's locals
                \* (n, idx, target: the range loop; ressources, rIdx: RemoveRessource)
                \* and two history fields: roundRecv, the receivers when the
                \* current delivery round began, and endedEmpty, whether the
                \* receiver list was empty when the range loop ended
    got,        \* per client: every frame sent on Client.In, in order
    taken,      \* per client: how many of them the connection writer has received
    leftc,      \* clients that have sent on Eps.Leave (ClientLeave has handled it)
    nDem,       \* messages sent to the hub so far
    nNotFound,  \* "[HUB] container not found" lines Subscribe has printed
    panicked,   \* a goroutine hit a runtime panic: the process is gone
    relay,      \* a goroutine sending on Eps.Relay: "idle", "sending" (waiting for a
                \* receiver) or "sent"
    ctlpc,      \* position of Controller.HandleEvents
    event,      \* the event HandleEvents is handling
    calls,      \* inventory calls made so far, in order
    nAbout,     \* UpdateAbout refreshes made so far
    nEvents,    \* events consumed so far
    initpc,     \* position of Controller.Init: the collaborator it initialises next, or "returned"
    initErr,    \* the error Init returned: "" (nil) or the collaborator that failed
    inited,     \* collaborators whose Init has returned nil
    apipc,      \* position of API.Run: "init" (in Controller.Init) or "serve" (Hub.Run started, router serving)
    drainpc,    \* the goroutine that drains Containers.Broadcast(): "off", "range" or "left"
    nBatches,   \* batches the drain has taken from the broadcast channel
    writes,     \* BulkWrite calls started so far, in order: the batch each was given
    returned    \* batches whose BulkWrite call has returned

hubvars == <<hubpc, dem, hres, reg, heap, res, got, taken, leftc, nDem, nNotFound, panicked, relay>>
ctlvars == <<ctlpc, event, calls, nAbout, nEvents>>
startvars == <<initpc, initErr, inited, apipc, drainpc, nBatches, writes, returned>>
vars == <<hubpc, dem, hres, reg, heap, res, got, taken, leftc, nDem, nNotFound, panicked, relay,
          ctlpc, event, calls, nAbout, nEvents,
          initpc, initErr, inited, apipc, drainpc, nBatches, writes, returned>>

NoDem == [Ressource |-> "", CID |-> "", Client |-> ""]
NoEvent == [Type |-> "", Status |-> "", ID |-> ""]

\* ------------------------------------------------------------------------
\* Go slices of the registry
\* ------------------------------------------------------------------------
NilSlice == [arr |-> NilArr, len |-> 0, cap |-> 0]

\* the elements a slice header sees in heap hp
View(hp, s) == [i \in 1..s.len |-> hp[s.arr][i]]

\* capacity chosen by append when the array is full
GrowCap(c) == IF c = 0 THEN 1 ELSE 2 * c

\* fill a sequence up to length n with unused slots
Pad(q, n) == [i \in 1..n |-> IF i <= Len(q) THEN q[i] ELSE ZeroRes]

\* append(s, x): in place when cap allows, else a new backing array
AppendHeap(hp, s, x) ==
    IF s.len < s.cap
    THEN [hp EXCEPT ![s.arr][s.len + 1] = x]
    ELSE Append(hp, Pad(Append(View(hp, s), x), GrowCap(s.cap)))

AppendSlice(hp, s, x) ==
    IF s.len < s.cap
    THEN [s EXCEPT !.len = s.len + 1]
    ELSE [arr |-> Len(hp) + 1, len |-> s.len + 1, cap |-> GrowCap(s.cap)]

\* slices.Index(s, x), 1-based; 0 stands for -1
SliceIndex(hp, s, x) ==
    IF \E i \in 1..s.len : hp[s.arr][i] = x
    THEN CHOOSE i \in 1..s.len : hp[s.arr][i] = x /\ \A j \in 1..(i - 1) : hp[s.arr][j] # x
    ELSE 0

\* append(s[:i], s[i+1:]...) with 1-based i: shifts the tail left in s's own array
CutHeap(hp, s, i) ==
    [hp EXCEPT ![s.arr] = [j \in 1..Len(hp[s.arr]) |->
        IF j >= i /\ j < s.len THEN hp[s.arr][j + 1] ELSE hp[s.arr][j]]]

CutSlice(s, i) == [s EXCEPT !.len = s.len - 1]

\* ------------------------------------------------------------------------
\* Inventory, Ressource and Client
\* ------------------------------------------------------------------------
ContainerGet(cid) == cid \in Known

NewRessource(cid, ev, client) ==
    [ContainerID |-> cid, Event |-> ev, Receivers |-> <<client>>,
     quit |-> FALSE, seq |-> 0,
     pc |-> "recv", n |-> 0, idx |-> 0, target |-> "",
     ressources |-> NilSlice, rIdx |-> 0,
     roundRecv |-> <<>>, endedEmpty |-> FALSE]

RECURSIVE Without(_, _)
Without(q, c) ==
    IF q = <<>> THEN <<>>
    ELSE IF Head(q) = c THEN Without(Tail(q), c)
    ELSE <<Head(q)>> \o Without(Tail(q), c)

\* removal by moving the last receiver into the place of the one removed
RECURSIVE RemoveClient_SwapLast(_, _)
RemoveClient_SwapLast(q, c) ==
    IF \A i \in 1..Len(q) : q[i] # c THEN q
    ELSE LET i == CHOOSE k \in 1..Len(q) : q[k] = c /\ \A j \in 1..(k - 1) : q[j] # c
             moved == [q EXCEPT ![i] = q[Len(q)]]
         IN RemoveClient_SwapLast(SubSeq(moved, 1, Len(q) - 1), c)

\* Ressource.RemoveClient
RemoveClient(q, c) == Without(q, c)

\* the frames waiting in Client.In
In(c) == SubSeq(got[c], taken[c] + 1, Len(got[c]))

ResponseFrame(r) ==
    [CID |-> res[r].ContainerID, Type |-> res[r].Event, Res |-> r, Content |-> res[r].seq]

\* fan-out goroutines inside h.mutex.RLock() .. RUnlock()
Readers == {r \in 1..Len(res) : res[r].pc \in {"pick", "send"}}

\* Hub.Ressource(cid, event)
Ressource(cid, ev) ==
    IF ~ContainerGet(cid) THEN NoRes
    ELSE LET v == View(heap, reg[cid])
             hit(i) == v[i] # ZeroRes /\ res[v[i]].ContainerID = cid /\ res[v[i]].Event = ev
         IN IF \E i \in 1..Len(v) : hit(i)
            THEN v[CHOOSE i \in 1..Len(v) : hit(i) /\ \A j \in 1..(i - 1) : ~hit(j)]
            ELSE NoRes

\* ------------------------------------------------------------------------
\* Initial state
\* ------------------------------------------------------------------------
Init ==
    /\ hubpc = "select"
    /\ dem = NoDem
    /\ hres = NoRes
    /\ reg = [c \in Known |-> NilSlice]
    /\ heap = <<>>
    /\ res = <<>>
    /\ got = [c \in Clients |-> <<>>]
    /\ taken = [c \in Clients |-> 0]
    /\ leftc = {}
    /\ nDem = 0
    /\ nNotFound = 0
    /\ panicked = FALSE
    /\ relay = "idle"
    /\ ctlpc = "off"
    /\ event = NoEvent
    /\ calls = <<>>
    /\ nAbout = 0
    /\ nEvents = 0
    /\ initpc = "events"
    /\ initErr = ""
    /\ inited = {}
    /\ apipc = "init"
    /\ drainpc = "off"
    /\ nBatches = 0
    /\ writes = <<>>
    /\ returned = {}

\* ------------------------------------------------------------------------
\* Hub.Run and its handlers
\* ------------------------------------------------------------------------
Demands == [Ressource : Kinds, CID : CIDs, Client : Clients]

\* the demands of the connections in cs
DemandsOf(cs) == {d \in Demands : d.Client \in cs}

\* Subscribe without the return after "container not found"
HubSubscribe_NoReturn(d) ==
    /\ ~panicked
    /\ hubpc = "select"
    /\ d.Client \notin leftc
    /\ nDem < MaxDemands
    /\ nDem' = nDem + 1
    /\ nNotFound' = IF ContainerGet(d.CID) THEN nNotFound ELSE nNotFound + 1
    /\ hubpc' = "sub_lock"
    /\ dem' = d
    /\ hres' = Ressource(d.CID, d.Ressource)
    /\ UNCHANGED <<reg, heap, res, got, taken, leftc, panicked>>
    /\ UNCHANGED <<relay, ctlvars, startvars>>

\* case dem := <-h.Eps.Subscribe; Subscribe up to h.mutex.Lock()
HubSubscribe(d) ==
    /\ ~panicked
    /\ hubpc = "select"
    /\ d.Client \notin leftc
    /\ nDem < MaxDemands
    /\ nDem' = nDem + 1
    /\ IF ~ContainerGet(d.CID)
       THEN /\ nNotFound' = nNotFound + 1
            /\ UNCHANGED <<hubpc, dem, hres>>
       ELSE /\ hubpc' = "sub_lock"
            /\ dem' = d
            /\ hres' = Ressource(d.CID, d.Ressource)
            /\ UNCHANGED nNotFound
    /\ UNCHANGED <<reg, heap, res, got, taken, leftc, panicked>>
    /\ UNCHANGED <<relay, ctlvars, startvars>>

\* Subscribe from the return of h.mutex.Lock(), once the readers have left, to
\* h.mutex.Unlock()
HubSubscribeLocked ==
    /\ ~panicked
    /\ hubpc = "sub_wait"
    /\ Readers = {}
    /\ IF hres = NoRes
       THEN /\ res' = Append(res, NewRessource(dem.CID, dem.Ressource, dem.Client))
            /\ heap' = AppendHeap(heap, reg[dem.CID], Len(res) + 1)
            /\ reg' = [reg EXCEPT ![dem.CID] = AppendSlice(heap, reg[dem.CID], Len(res) + 1)]
       ELSE /\ res' = [res EXCEPT ![hres].Receivers = Append(@, dem.Client)]
            /\ UNCHANGED <<reg, heap>>
    /\ hubpc' = "select"
    /\ dem' = NoDem
    /\ hres' = NoRes
    /\ UNCHANGED <<got, taken, leftc, nDem, nNotFound, panicked>>
    /\ UNCHANGED <<relay, ctlvars, startvars>>

\* case dem := <-h.Eps.Unsubscribe; Unsubscribe
HubUnsubscribe(d) ==
    /\ ~panicked
    /\ hubpc = "select"
    /\ d.Client \notin leftc
    /\ nDem < MaxDemands
    /\ nDem' = nDem + 1
    /\ LET r == Ressource(d.CID, d.Ressource)
       IN IF ContainerGet(d.CID) /\ r # NoRes
                /\ \E i \in 1..Len(res[r].Receivers) : res[r].Receivers[i] = d.Client
          THEN res' = [res EXCEPT ![r].Receivers = RemoveClient(@, d.Client)]
          ELSE UNCHANGED res
    /\ UNCHANGED <<hubpc, dem, hres, reg, heap, got, taken, leftc, nNotFound, panicked>>
    /\ UNCHANGED <<relay, ctlvars, startvars>>

\* the Ressources ClientLeave's scan of h.Ressources visits
Registered ==
    {r \in 1..Len(res) : \E c \in Known : \E i \in 1..reg[c].len : heap[reg[c].arr][i] = r}

\* case client := <-h.Eps.Leave; ClientLeave
HubClientLeave(c) ==
    /\ ~panicked
    /\ hubpc = "select"
    /\ c \notin leftc
    /\ nDem < MaxDemands
    /\ nDem' = nDem + 1
    /\ leftc' = leftc \cup {c}
    /\ res' = [r \in 1..Len(res) |->
                 IF r \in Registered
                 THEN [res[r] EXCEPT !.Receivers = RemoveClient(@, c)]
                 ELSE res[r]]
    /\ UNCHANGED <<hubpc, dem, hres, reg, heap, got, taken, nNotFound, panicked>>
    /\ UNCHANGED <<relay, ctlvars, startvars>>

\* ------------------------------------------------------------------------
\* Hub.HandleRessource: the fan-out goroutine of Ressource r
\* ------------------------------------------------------------------------
Push(c, f) == got' = [got EXCEPT ![c] = Append(@, f)]

\* after a send to Receivers[idx]: next iteration, or RUnlock after the last one
AfterSend(r) ==
    IF res[r].idx + 1 < res[r].n
    THEN [res EXCEPT ![r].idx = @ + 1, ![r].pc = "pick", ![r].target = ""]
    ELSE [res EXCEPT ![r].idx = 0, ![r].n = 0, ![r].pc = "check", ![r].target = ""]

\* a goroutine is inside h.mutex.Lock(), having taken the mutex's writer lock
\* and announced itself, or between Lock() and Unlock(): sync.RWMutex lets no
\* new reader and no other writer in. A goroutine only heading for Lock(), or
\* queued behind this writer, keeps no reader out.
WriterPending ==
    \/ hubpc = "sub_wait"
    \/ \E w \in 1..Len(res) : res[w].pc \in {"rm_wait", "rm_cut"}

\* set := <-r.Data.In; build the frame; the goroutine is then at h.mutex.RLock()
FanoutRecv(r) ==
    /\ ~panicked
    /\ res[r].pc = "recv"
    /\ ~res[r].quit
    /\ res[r].seq < MaxSamples
    /\ res' = [res EXCEPT ![r].seq = @ + 1, ![r].pc = "rlock"]
    /\ UNCHANGED <<hubpc, dem, hres, reg, heap, got, taken, leftc, nDem, nNotFound, panicked>>
    /\ UNCHANGED <<relay, ctlvars, startvars>>

\* h.mutex.RLock() returns, which it does only while no writer holds or waits
\* for the lock; range r.Receivers is evaluated (with no receiver the loop is
\* skipped and RUnlock follows at once)
FanoutRLock(r) ==
    /\ ~panicked
    /\ res[r].pc = "rlock"
    /\ ~WriterPending
    /\ LET n == Len(res[r].Receivers)
       IN res' = [res EXCEPT ![r].n = n, ![r].idx = 0,
                             ![r].roundRecv = res[r].Receivers,
                             ![r].pc = IF n = 0 THEN "check" ELSE "pick"]
    /\ UNCHANGED <<hubpc, dem, hres, reg, heap, got, taken, leftc, nDem, nNotFound, panicked>>
    /\ UNCHANGED <<relay, ctlvars, startvars>>

\* r.Data.In is closed by the underlying stream: the range loop ends; r.Quit()
FanoutClosed(r) ==
    /\ ~panicked
    /\ res[r].pc = "recv"
    /\ res' = [res EXCEPT ![r].quit = TRUE, ![r].pc = "rm_check",
                          ![r].endedEmpty = (res[r].Receivers = <<>>)]
    /\ UNCHANGED <<hubpc, dem, hres, reg, heap, got, taken, leftc, nDem, nNotFound, panicked>>
    /\ UNCHANGED <<relay, ctlvars, startvars>>

\* the operand of the send is evaluated: r.Receivers[idx].In
FanoutPick(r) ==
    /\ ~panicked
    /\ res[r].pc = "pick"
    /\ res[r].idx + 1 <= Len(res[r].Receivers)
    /\ res' = [res EXCEPT ![r].pc = "send", ![r].target = res[r].Receivers[res[r].idx + 1]]
    /\ UNCHANGED <<hubpc, dem, hres, reg, heap, got, taken, leftc, nDem, nNotFound, panicked>>
    /\ UNCHANGED <<relay, ctlvars, startvars>>

\* ... <- frame: the send, which waits while the queue is full
FanoutSend(r) ==
    /\ ~panicked
    /\ res[r].pc = "send"
    /\ Len(In(res[r].target)) < QueueCap
    /\ Push(res[r].target, ResponseFrame(r))
    /\ res' = AfterSend(r)
    /\ UNCHANGED <<hubpc, dem, hres, reg, heap, taken, leftc, nDem, nNotFound, panicked>>
    /\ UNCHANGED <<relay, ctlvars, startvars>>

\* r.Receivers[idx] with idx >= len(r.Receivers): index out of range
FanoutIndexPanic(r) ==
    /\ ~panicked
    /\ res[r].pc = "pick"
    /\ res[r].idx + 1 > Len(res[r].Receivers)
    /\ panicked' = TRUE
    /\ res' = [res EXCEPT ![r].pc = "panic_idx"]
    /\ UNCHANGED <<hubpc, dem, hres, reg, heap, got, taken, leftc, nDem, nNotFound>>
    /\ UNCHANGED <<relay, ctlvars, startvars>>

\* if len(r.Receivers) == 0 { break }; after the loop r.Quit()
FanoutCheck(r) ==
    /\ ~panicked
    /\ res[r].pc = "check"
    /\ IF Len(res[r].Receivers) = 0
       THEN res' = [res EXCEPT ![r].quit = TRUE, ![r].pc = "rm_check",
                               ![r].roundRecv = <<>>, ![r].endedEmpty = TRUE]
       ELSE res' = [res EXCEPT ![r].pc = "recv", ![r].roundRecv = <<>>]
    /\ UNCHANGED <<hubpc, dem, hres, reg, heap, got, taken, leftc, nDem, nNotFound, panicked>>
    /\ UNCHANGED <<relay, ctlvars, startvars>>

\* RemoveRessource: if len(r.Receivers) == 0, read without the lock
RemoveRessourceCheck(r) ==
    /\ ~panicked
    /\ res[r].pc = "rm_check"
    /\ res' = [res EXCEPT ![r].pc = IF Len(res[r].Receivers) = 0 THEN "rm_read" ELSE "done"]
    /\ UNCHANGED <<hubpc, dem, hres, reg, heap, got, taken, leftc, nDem, nNotFound, panicked>>
    /\ UNCHANGED <<relay, ctlvars, startvars>>

\* ressources := h.Ressources[c]: the slice header is copied without the lock
RemoveRessourceRead(r) ==
    /\ ~panicked
    /\ res[r].pc = "rm_read"
    /\ res' = [res EXCEPT ![r].ressources = reg[res[r].ContainerID], ![r].pc = "rm_index"]
    /\ UNCHANGED <<hubpc, dem, hres, reg, heap, got, taken, leftc, nDem, nNotFound, panicked>>
    /\ UNCHANGED <<relay, ctlvars, startvars>>

\* rIdx := slices.Index(ressources, r): the scan of the copied header's
\* elements, without the lock; if rIdx > -1 the goroutine calls h.mutex.Lock()
RemoveRessourceIndex(r) ==
    /\ ~panicked
    /\ res[r].pc = "rm_index"
    /\ LET i == SliceIndex(heap, res[r].ressources, r)
       IN res' = [res EXCEPT ![r].rIdx = i,
                             ![r].pc = IF i > 0 THEN "rm_lock" ELSE "done",
                             ![r].ressources = IF i > 0 THEN @ ELSE NilSlice]
    /\ UNCHANGED <<hubpc, dem, hres, reg, heap, got, taken, leftc, nDem, nNotFound, panicked>>
    /\ UNCHANGED <<relay, ctlvars, startvars>>

\* h.mutex.Lock() of Subscribe takes the mutex's writer lock and announces the
\* writer
HubLock ==
    /\ ~panicked
    /\ hubpc = "sub_lock"
    /\ ~WriterPending
    /\ hubpc' = "sub_wait"
    /\ UNCHANGED <<dem, hres, reg, heap, res, got, taken, leftc, nDem, nNotFound, panicked>>
    /\ UNCHANGED <<relay, ctlvars, startvars>>

\* h.mutex.Lock() of RemoveRessource takes the mutex's writer lock and
\* announces the writer
RemoveRessourceLock(r) ==
    /\ ~panicked
    /\ res[r].pc = "rm_lock"
    /\ ~WriterPending
    /\ res' = [res EXCEPT ![r].pc = "rm_wait"]
    /\ UNCHANGED <<hubpc, dem, hres, reg, heap, got, taken, leftc, nDem, nNotFound, panicked>>
    /\ UNCHANGED <<relay, ctlvars, startvars>>

\* Lock() returns once the readers have left; h.Ressources[c][rIdx] =
\* &Ressource{}: the slot of the map's current slice is zeroed
RemoveRessourceZero(r) ==
    /\ ~panicked
    /\ res[r].pc = "rm_wait"
    /\ Readers = {}
    /\ LET c == res[r].ContainerID
           i == res[r].rIdx
       IN IF i > reg[c].len
          THEN \* h.Ressources[c][rIdx]: index out of range
               /\ panicked' = TRUE
               /\ res' = [res EXCEPT ![r].pc = "panic_rm"]
               /\ UNCHANGED heap
          ELSE /\ heap' = [heap EXCEPT ![reg[c].arr][i] = ZeroRes]
               /\ res' = [res EXCEPT ![r].pc = "rm_cut"]
               /\ UNCHANGED panicked
    /\ UNCHANGED <<hubpc, dem, hres, reg, got, taken, leftc, nDem, nNotFound>>
    /\ UNCHANGED <<relay, ctlvars, startvars>>

\* h.Ressources[c] = append(ressources[:rIdx], ressources[rIdx+1:]...), built
\* from the header copied before the lock; h.mutex.Unlock()
RemoveRessourceLocked(r) ==
    /\ ~panicked
    /\ res[r].pc = "rm_cut"
    /\ LET c == res[r].ContainerID
           i == res[r].rIdx
       IN /\ heap' = CutHeap(heap, res[r].ressources, i)
          /\ reg' = [reg EXCEPT ![c] = CutSlice(res[r].ressources, i)]
          /\ res' = [res EXCEPT ![r].pc = "done", ![r].ressources = NilSlice, ![r].rIdx = 0]
    /\ UNCHANGED <<hubpc, dem, hres, got, taken, leftc, nDem, nNotFound, panicked>>
    /\ UNCHANGED <<relay, ctlvars, startvars>>

\* goroutine r is in RemoveRessource before h.mutex.Lock(), about to read
\* h.Ressources[c] (line 187)
ReadsMap(r) == res[r].pc = "rm_read"

\* goroutine r is in RemoveRessource before h.mutex.Lock(), about to read
\* h.Ressources[c] or the slice's elements
ReadsUnlocked(r) == res[r].pc \in {"rm_read", "rm_index"}

\* goroutine r holds the lock in RemoveRessource and is about to assign
\* h.Ressources[c] (line 194)
WritesMap(r) == res[r].pc = "rm_cut"

\* goroutine r holds the lock in RemoveRessource and is about to write a slot
\* of the registry slice (line 193, which stores only when rIdx is within the
\* map's current slice and panics otherwise) or the map and the slice (line 194)
Writes(r) ==
    \/ WritesMap(r)
    \/ /\ res[r].pc = "rm_wait"
       /\ Readers = {}
       /\ res[r].rIdx <= reg[res[r].ContainerID].len

\* Subscribe holds the lock and goes on to write h.Ressources[container]
HubWrites == hubpc = "sub_wait" /\ Readers = {} /\ hres = NoRes

\* the unlocked read of RemoveRessource overlaps a write of the map by
\* Subscribe or by another RemoveRessource, and the runtime stops the process:
\* "fatal error: concurrent map read and map write"
MapRace(r) ==
    /\ ~panicked
    /\ ReadsMap(r)
    /\ HubWrites \/ \E w \in (1..Len(res)) \ {r} : WritesMap(w)
    /\ panicked' = TRUE
    /\ res' = [res EXCEPT ![r].pc = "fatal_map"]
    /\ UNCHANGED <<hubpc, dem, hres, reg, heap, got, taken, leftc, nDem, nNotFound>>
    /\ UNCHANGED <<relay, ctlvars, startvars>>

\* the unlocked read of the map by the control loop (Hub.Ressource, called by
\* Subscribe and Unsubscribe, or ClientLeave's scan) overlaps the write of a
\* RemoveRessource, and the runtime stops the process
HubMapRace ==
    /\ ~panicked
    /\ hubpc = "select"
    /\ nDem < MaxDemands
    /\ \E w \in 1..Len(res) : WritesMap(w)
    /\ nDem' = nDem + 1
    /\ panicked' = TRUE
    /\ hubpc' = "fatal_map"
    /\ UNCHANGED <<dem, hres, reg, heap, res, got, taken, leftc, nNotFound>>
    /\ UNCHANGED <<relay, ctlvars, startvars>>

\* the connection's writer receives one frame from Client.In
Drain(c) ==
    /\ ~panicked
    /\ taken[c] < Len(got[c])
    /\ taken' = [taken EXCEPT ![c] = @ + 1]
    /\ UNCHANGED <<hubpc, dem, hres, reg, heap, res, got, leftc, nDem, nNotFound, panicked>>
    /\ UNCHANGED <<relay, ctlvars, startvars>>

\* Eps.Relay <- set: Relay is made without a buffer, so the send waits until a
\* receive on Eps.Relay takes the value
RelaySend ==
    /\ ~panicked
    /\ relay = "idle"
    /\ relay' = "sending"
    /\ UNCHANGED <<hubpc, dem, hres, reg, heap, res, got, taken, leftc, nDem, nNotFound, panicked>>
    /\ UNCHANGED <<ctlvars, startvars>>

Fanout(r) ==
    \/ FanoutRecv(r)
    \/ FanoutRLock(r)
    \/ FanoutClosed(r)
    \/ FanoutPick(r)
    \/ FanoutSend(r)
    \/ FanoutIndexPanic(r)
    \/ FanoutCheck(r)
    \/ RemoveRessourceCheck(r)
    \/ RemoveRessourceRead(r)
    \/ RemoveRessourceIndex(r)
    \/ RemoveRessourceLock(r)
    \/ RemoveRessourceZero(r)
    \/ RemoveRessourceLocked(r)
    \/ MapRace(r)

Next ==
    \/ \E d \in DemandsOf(TwoClients) : HubSubscribe(d)
    \/ HubLock
    \/ HubSubscribeLocked
    \/ \E d \in DemandsOf(TwoClients) : HubUnsubscribe(d)
    \/ \E c \in TwoClients : HubClientLeave(c)
    \/ \E r \in 1..Len(res) : FanoutRecv(r)
    \/ \E r \in 1..Len(res) : FanoutRLock(r)
    \/ \E r \in 1..Len(res) : FanoutClosed(r)
    \/ \E r \in 1..Len(res) : FanoutPick(r)
    \/ \E r \in 1..Len(res) : FanoutSend(r)
    \/ \E r \in 1..Len(res) : FanoutIndexPanic(r)
    \/ \E r \in 1..Len(res) : FanoutCheck(r)
    \/ \E r \in 1..Len(res) : RemoveRessourceCheck(r)
    \/ \E r \in 1..Len(res) : RemoveRessourceRead(r)
    \/ \E r \in 1..Len(res) : RemoveRessourceIndex(r)
    \/ \E r \in 1..Len(res) : RemoveRessourceLock(r)
    \/ \E r \in 1..Len(res) : RemoveRessourceZero(r)
    \/ \E r \in 1..Len(res) : RemoveRessourceLocked(r)
    \/ \E r \in 1..Len(res) : MapRace(r)
    \/ HubMapRace
    \/ \E c \in TwoClients : Drain(c)
    \/ RelaySend

Spec == Init /\ [][Next]_vars

\* The hub with all three connections open, so that a receiver list can hold
\* two receivers besides the one a demand is about. Nothing sends on Eps.Relay
\* here: RelaySend changes relay only, which no handler reads.
NextWide ==
    \/ \E d \in Demands : HubSubscribe(d)
    \/ HubLock
    \/ HubSubscribeLocked
    \/ \E d \in Demands : HubUnsubscribe(d)
    \/ \E c \in Clients : HubClientLeave(c)
    \/ \E r \in 1..Len(res) : FanoutRecv(r)
    \/ \E r \in 1..Len(res) : FanoutRLock(r)
    \/ \E r \in 1..Len(res) : FanoutClosed(r)
    \/ \E r \in 1..Len(res) : FanoutPick(r)
    \/ \E r \in 1..Len(res) : FanoutSend(r)
    \/ \E r \in 1..Len(res) : FanoutIndexPanic(r)
    \/ \E r \in 1..Len(res) : FanoutCheck(r)
    \/ \E r \in 1..Len(res) : RemoveRessourceCheck(r)
    \/ \E r \in 1..Len(res) : RemoveRessourceRead(r)
    \/ \E r \in 1..Len(res) : RemoveRessourceIndex(r)
    \/ \E r \in 1..Len(res) : RemoveRessourceLock(r)
    \/ \E r \in 1..Len(res) : RemoveRessourceZero(r)
    \/ \E r \in 1..Len(res) : RemoveRessourceLocked(r)
    \/ \E r \in 1..Len(res) : MapRace(r)
    \/ HubMapRace
    \/ \E c \in Clients : Drain(c)

SpecWide == Init /\ [][NextWide]_vars

\* ------------------------------------------------------------------------
\* Controller.HandleEvents
\* ------------------------------------------------------------------------
Events == [Type : EventTypes, Status : Statuses, ID : EventIDs]

\* for set := range eventRcv.In; events of another type are skipped
CtlRecv(e) ==
    /\ ctlpc = "range"
    /\ nEvents < MaxEvents
    /\ nEvents' = nEvents + 1
    /\ event' = e
    /\ ctlpc' = IF e.Type # "container" THEN "range" ELSE "switch"
    /\ UNCHANGED <<calls, nAbout>>
    /\ UNCHANGED <<hubvars, startvars>>

\* the inventory call ContainerStart / ContainerStop / ContainerDestroy makes
\* for event e, returning error err
ContainerStart(e, err) == <<[op |-> "Add", id |-> e.ID, err |-> err]>>
\* ContainerStop calling Remove where it has to call Stop
ContainerStop_CallsRemove(e, err) == <<[op |-> "Remove", id |-> e.ID, err |-> err]>>
ContainerStop(e, err) == <<[op |-> "Stop", id |-> e.ID, err |-> err]>>
ContainerDestroy(e, err) == <<[op |-> "Remove", id |-> e.ID, err |-> err]>>

\* switch event.Status
Dispatch(e, err) ==
    CASE e.Status = "start" -> ContainerStart(e, err)
      [] e.Status = "stop" -> ContainerStop(e, err)
      [] e.Status = "destroy" -> ContainerDestroy(e, err)
      [] OTHER -> <<>>

\* the switch on event.Status, then ctr.UpdateAbout()
CtlSwitch(err) ==
    /\ ctlpc = "switch"
    /\ calls' = calls \o Dispatch(event, err)
    /\ nAbout' = nAbout + 1
    /\ ctlpc' = "range"
    /\ UNCHANGED <<event, nEvents>>
    /\ UNCHANGED <<hubvars, startvars>>

\* ------------------------------------------------------------------------
\* Controller.Init, its caller API.Run and the goroutines Init starts
\* ------------------------------------------------------------------------
\* UpdateAbout and UpdateVolumes (their errors are only logged); Events.Init;
\* go ctr.HandleEvents()
InitEvents(ok) ==
    /\ initpc = "events"
    /\ nAbout' = nAbout + 1
    /\ IF ok
       THEN /\ inited' = inited \cup {"events"}
            /\ ctlpc' = "start"
            /\ initpc' = "images"
            /\ UNCHANGED initErr
       ELSE /\ initErr' = "events"
            /\ initpc' = "returned"
            /\ UNCHANGED <<inited, ctlpc>>
    /\ UNCHANGED <<event, calls, nEvents, apipc, drainpc, nBatches, writes, returned>>
    /\ UNCHANGED hubvars

\* HandleEvents up to its loop: eventRcv, err := ctr.Events.Get()
CtlStart(ok) ==
    /\ ctlpc = "start"
    /\ ctlpc' = IF ok THEN "range" ELSE "returned"
    /\ UNCHANGED <<event, calls, nAbout, nEvents>>
    /\ UNCHANGED <<hubvars, startvars>>

\* ctr.Images.Init()
InitImages(ok) ==
    /\ initpc = "images"
    /\ IF ok
       THEN /\ inited' = inited \cup {"images"}
            /\ initpc' = "containers"
            /\ UNCHANGED initErr
       ELSE /\ initErr' = "images"
            /\ initpc' = "returned"
            /\ UNCHANGED inited
    /\ UNCHANGED <<apipc, drainpc, nBatches, writes, returned>>
    /\ UNCHANGED <<hubvars, ctlvars>>

\* ctr.Containers.Init(ctr.Images.ByID); go func() { for items := range ... }()
InitContainers(ok) ==
    /\ initpc = "containers"
    /\ IF ok
       THEN /\ inited' = inited \cup {"containers"}
            /\ drainpc' = "range"
            /\ initpc' = "db"
            /\ UNCHANGED initErr
       ELSE /\ initErr' = "containers"
            /\ initpc' = "returned"
            /\ UNCHANGED <<inited, drainpc>>
    /\ UNCHANGED <<apipc, nBatches, writes, returned>>
    /\ UNCHANGED <<hubvars, ctlvars>>

\* ctr.DB.Init(); return err
InitDB(ok) ==
    /\ initpc = "db"
    /\ initpc' = "returned"
    /\ IF ok
       THEN inited' = inited \cup {"db"} /\ UNCHANGED initErr
       ELSE initErr' = "db" /\ UNCHANGED inited
    /\ UNCHANGED <<apipc, drainpc, nBatches, writes, returned>>
    /\ UNCHANGED <<hubvars, ctlvars>>

\* API.Run after api.Controller.Init() has returned: go api.Hub.Run();
\* api.Router.Run(api.Addr)
ApiRun ==
    /\ apipc = "init"
    /\ initpc = "returned"
    /\ apipc' = "serve"
    /\ UNCHANGED <<initpc, initErr, inited, drainpc, nBatches, writes, returned>>
    /\ UNCHANGED <<hubvars, ctlvars>>

\* the BulkWrite calls that have not returned
InFlight == {writes[i] : i \in 1..Len(writes)} \ returned

\* a drain that calls BulkWrite in its own goroutine: it takes the next batch
\* only when the call has returned
DrainBatch_Waits ==
    /\ drainpc = "range"
    /\ nBatches < MaxBatches
    /\ InFlight = {}
    /\ nBatches' = nBatches + 1
    /\ writes' = Append(writes, nBatches + 1)
    /\ UNCHANGED <<initpc, initErr, inited, apipc, drainpc, returned>>
    /\ UNCHANGED <<hubvars, ctlvars>>

\* one iteration of the drain: items taken from Containers.Broadcast();
\* go ctr.DB.Client.BulkWrite(items)
DrainBatch ==
    /\ drainpc = "range"
    /\ nBatches < MaxBatches
    /\ nBatches' = nBatches + 1
    /\ writes' = Append(writes, nBatches + 1)
    /\ UNCHANGED <<initpc, initErr, inited, apipc, drainpc, returned>>
    /\ UNCHANGED <<hubvars, ctlvars>>

\* the broadcast channel is closed: "feed writer left"
DrainClosed ==
    /\ drainpc = "range"
    /\ drainpc' = "left"
    /\ UNCHANGED <<initpc, initErr, inited, apipc, nBatches, writes, returned>>
    /\ UNCHANGED <<hubvars, ctlvars>>

\* the sink returns from the BulkWrite call for batch k
BulkWriteReturn(k) ==
    /\ k \in InFlight
    /\ returned' = returned \cup {k}
    /\ UNCHANGED <<initpc, initErr, inited, apipc, drainpc, nBatches, writes>>
    /\ UNCHANGED <<hubvars, ctlvars>>

NextCtl ==
    \/ \E ok \in BOOLEAN : InitEvents(ok)
    \/ \E ok \in BOOLEAN : CtlStart(ok)
    \/ \E ok \in BOOLEAN : InitImages(ok)
    \/ \E ok \in BOOLEAN : InitContainers(ok)
    \/ \E ok \in BOOLEAN : InitDB(ok)
    \/ ApiRun
    \/ \E e \in Events : CtlRecv(e)
    \/ \E err \in BOOLEAN : CtlSwitch(err)
    \/ DrainBatch
    \/ DrainClosed
    \/ \E k \in 1..MaxBatches : BulkWriteReturn(k)

SpecCtl == Init /\ [][NextCtl]_vars

\* ------------------------------------------------------------------------
\* The hub with its scheduling: every goroutine that can take a step
\* eventually takes one, the mutex is eventually granted, and client "B"
\* keeps receiving from its queue. Nothing makes the underlying streams
\* produce, the clients send demands, or client "A" receive from its queue.
\* ------------------------------------------------------------------------
Rids == 1..Len(res)

Step(r) ==
    /\ r \in Rids
    /\ \/ FanoutRLock(r)
       \/ FanoutPick(r)
       \/ FanoutSend(r)
       \/ FanoutIndexPanic(r)
       \/ FanoutCheck(r)
       \/ RemoveRessourceCheck(r)
       \/ RemoveRessourceRead(r)
       \/ RemoveRessourceIndex(r)
       \/ RemoveRessourceLock(r)
       \/ RemoveRessourceZero(r)
       \/ RemoveRessourceLocked(r)

FairSpec ==
    /\ Init
    /\ [][Next]_vars
    /\ WF_vars(HubLock)
    /\ WF_vars(HubSubscribeLocked)
    /\ \A r \in 1..MaxDemands : WF_vars(Step(r))
    /\ WF_vars(Drain("B"))

\* ------------------------------------------------------------------------
\* Properties
\* ------------------------------------------------------------------------
\* the fan-out goroutine of r is running and r's stream has not been quit
Live(r) == ~res[r].quit /\ res[r].pc \in {"recv", "rlock", "pick", "send", "check"}

\* r is an element of the registry slice of its container
InRegistry(r) ==
    \E i \in 1..reg[res[r].ContainerID].len : heap[reg[res[r].ContainerID].arr][i] = r

Range(q) == {q[i] : i \in 1..Len(q)}

\* how many times x occurs in q
Count(q, x) == Cardinality({i \in 1..Len(q) : q[i] = x})

\* the registered Ressources for (cid, kind)
Matching(cid, ev) ==
    {r \in Registered : res[r].ContainerID = cid /\ res[r].Event = ev}

\* new is old with every occurrence of c taken out: each other receiver of old
\* stands in new at the place it has among the other receivers of old
Kept(old, new, c) ==
    LET others == {i \in 1..Len(old) : old[i] # c}
    IN /\ Len(new) = Cardinality(others)
       /\ \A i \in others : new[Cardinality({j \in others : j <= i})] = old[i]

\* the frames of Ressource r sent to client c, in the order sent
FramesOf(c, r) == SelectSeq(got[c], LAMBDA f : f.Res = r)

\* a delivery round of r is over: the range loop over the receivers was left,
\* normally or by a panic
RoundOver(r) == res[r].pc \in {"check", "panic_idx"}

\* the send of fan-out goroutine r is blocked on a full Client.In
Blocked(r) == res[r].pc = "send" /\ Len(In(res[r].target)) >= QueueCap

\* the inventory call HandleEvents has to make for event e
Expected(e) ==
    IF e.Type = "container" /\ e.Status = "start" THEN <<[op |-> "Add", id |-> e.ID]>>
    ELSE IF e.Type = "container" /\ e.Status = "stop" THEN <<[op |-> "Stop", id |-> e.ID]>>
    ELSE IF e.Type = "container" /\ e.Status = "destroy" THEN <<[op |-> "Remove", id |-> e.ID]>>
    ELSE <<>>

\* the calls of q without their results
Ops(q) == [i \in 1..Len(q) |-> [op |-> q[i].op, id |-> q[i].id]]

\* C1: in every reachable state there is at most one live Ressource for each
\* (container, resource kind).
C1_AtMostOneLive ==
    \A r1, r2 \in Rids :
        (/\ Live(r1) /\ Live(r2)
         /\ res[r1].ContainerID = res[r2].ContainerID
         /\ res[r1].Event = res[r2].Event) => r1 = r2

\* C2: once the range loop of a Ressource has ended with no receiver left,
\* the Ressource is quit, no client becomes its receiver any more (a later
\* Subscribe gets a new instance) and, when its teardown is over, it is not in
\* the registry.
C2_Reclaim ==
    \A r \in Rids :
        (res[r].quit /\ res[r].endedEmpty) =>
            /\ res[r].Receivers = <<>>
            /\ res[r].pc = "done" => ~InRegistry(r)

\* C3: RemoveRessource removes a Ressource from the registry only while its
\* receiver list is empty.
C3_RemoveOnlyEmpty ==
    [][\A r \in Rids :
          (res[r].pc = "rm_cut" /\ res'[r].pc = "done") => res[r].Receivers = <<>>]_vars

\* C4: every client that is a receiver of r (registered once) for the whole
\* of a delivery round has, when the round is over, exactly one frame for the
\* round's sample, and the frames it has from r are in production order.
C4_FanoutFidelity ==
    \A r \in Rids : \A c \in Clients :
        /\ (/\ RoundOver(r)
            /\ Count(res[r].roundRecv, c) = 1
            /\ Count(res[r].Receivers, c) = 1)
           => Count(got[c], ResponseFrame(r)) = 1
        /\ \A i, j \in 1..Len(FramesOf(c, r)) :
              i < j => FramesOf(c, r)[i].Content <= FramesOf(c, r)[j].Content

\* C5: once ClientLeave(c) has been handled, c is in the receiver list of no
\* Ressource of the registry and no frame is sent on c's queue any more.
C5_LeaveCleanup ==
    [][\A c \in Clients :
          /\ c \in leftc' => \A r \in Registered' : c \notin Range(res'[r].Receivers)
          /\ c \in leftc => got'[c] = got[c]]_vars

\* C6: handling one event makes exactly the inventory call of its status for
\* its id (none for another status or a non-container event), whatever the
\* call returns, and the loop then takes the next event.
C6_LifecycleDispatch ==
    [][/\ (ctlpc = "range" /\ nEvents' = nEvents + 1) =>
              /\ calls' = calls
              /\ event'.Type # "container" => (ctlpc' = "range" /\ Expected(event') = <<>>)
              /\ event'.Type = "container" => ctlpc' = "switch"
       /\ ctlpc = "switch" =>
              /\ ctlpc' = "range"
              /\ Ops(calls') = Ops(calls) \o Expected(event)]_ctlvars

\* a call failed and the loop went on to make a later call
C6_Witness ==
    /\ ctlpc = "range"
    /\ \E i \in 1..Len(calls) : calls[i].err /\ i < Len(calls)

\* C7: a Subscribe for a container id the inventory does not know only prints
\* "container not found": registry, Ressources, receiver lists and every
\* client's queue stay as they are and the control loop is back at its select.
C7_UnknownContainerDropped ==
    [][\A d \in Demands :
          (d.CID \notin Known /\ HubSubscribe(d)) =>
              /\ nNotFound' = nNotFound + 1
              /\ UNCHANGED <<hubpc, dem, hres, reg, heap, res, got, taken, leftc, panicked>>]_vars

\* only Subscribe demands for an unknown container were handled: nothing was
\* created, nothing was sent, the loop is at its select
C7_Witness ==
    /\ nNotFound >= 1
    /\ nDem = nNotFound
    /\ hubpc = "select"
    /\ res = <<>>
    /\ reg = [c \in Known |-> NilSlice]
    /\ \A c \in Clients : got[c] = <<>>

\* C8: Unsubscribe(d) changes at most the receiver list of one registered
\* Ressource for (d.CID, d.Ressource), from which it takes d.Client out,
\* keeping the other receivers in their order; the registry, the other
\* Ressources and the queues are unchanged, and nothing changes when the
\* container is unknown, no Ressource exists for the kind or the client is
\* not a receiver.
C8_UnsubscribeFrame ==
    [][\A d \in Demands :
          HubUnsubscribe(d) =>
              /\ UNCHANGED <<hubpc, dem, hres, reg, heap, got, taken, leftc, panicked>>
              /\ Len(res') = Len(res)
              /\ \A r \in Rids :
                    \/ res'[r] = res[r]
                    \/ /\ r \in Matching(d.CID, d.Ressource)
                       /\ [res'[r] EXCEPT !.Receivers = <<>>] = [res[r] EXCEPT !.Receivers = <<>>]
                       /\ Kept(res[r].Receivers, res'[r].Receivers, d.Client)
              /\ Cardinality({r \in Rids : res'[r] # res[r]}) <= 1
              /\ Matching(d.CID, d.Ressource) # {} =>
                    \E r \in Matching(d.CID, d.Ressource) : d.Client \notin Range(res'[r].Receivers)]_vars

\* the Ressource for (c1, metrics) has sent its sample to "A", "B" and "C",
\* "A" has not left, and the receivers are now [B, C]
C8_Witness ==
    \E r \in Rids :
        /\ res[r].ContainerID = "c1" /\ res[r].Event = "metrics"
        /\ InRegistry(r)
        /\ res[r].Receivers = <<"B", "C">>
        /\ "A" \notin leftc
        /\ \A c \in Clients : FramesOf(c, r) # <<>>

\* C9: a fan-out goroutine is never blocked on a push to a receiver's queue
\* while it holds the hub's read lock, so a client that does not drain its
\* queue cannot keep the frames from the other receivers.
C9_NoBlockedPushUnderRLock ==
    \A r \in Rids : r \in Readers => ~Blocked(r)

\* C10: whenever the control loop is inside a handler, the handler returns
\* and the loop is back at its select (unless the process has panicked).
C10_HandlerReturns ==
    (hubpc # "select") ~> (hubpc = "select" \/ panicked)

\* C11: a value sent on Eps.Relay while Run is running is eventually received
\* by the control loop (or the process has panicked): the sender does not wait
\* forever.
C11_RelayReceived ==
    (relay = "sending") ~> (relay = "sent" \/ panicked)

\* C12: when Controller.Init has returned the error of the image inventory,
\* the container inventory or the persistence sink, the drain of the inventory
\* broadcast is not running and API.Run has not gone on to start the Hub and
\* serve.
C12_InitFailureAborts ==
    initErr \in {"images", "containers", "db"} => (drainpc # "range" /\ apipc # "serve")

\* C13: no goroutine reads the registry without the hub's mutex while another
\* one writes it: RemoveRessource's unlocked read never overlaps a write by
\* Subscribe or by another RemoveRessource, and the control loop never takes a
\* demand, whose handler reads the registry unlocked, while a RemoveRessource
\* writes it.
C13_RegistryUnderMutex ==
    /\ \A r \in Rids :
          ReadsUnlocked(r) => ~(HubWrites \/ \E w \in Rids \ {r} : Writes(w))
    /\ \A w \in Rids :
          Writes(w) => ~(hubpc = "select" /\ nDem < MaxDemands /\ ~panicked)

\* C14: the locked part of RemoveRessource(c, r) takes exactly r out of the
\* registry: every other registered Ressource, one appended by a Subscribe
\* since RemoveRessource read the slice included, is still registered.
C14_RemovesExactly ==
    [][\A r \in Rids :
          (\/ res[r].pc = "rm_wait" /\ res'[r].pc = "rm_cut"
           \/ res[r].pc = "rm_cut" /\ res'[r].pc = "done") =>
              Registered' = Registered \ {r}]_vars

\* C15: when the underlying stream of a Ressource has closed and its goroutine
\* has finished, the Ressource is quit and out of the registry, whether or not
\* it had receivers when the stream closed.
C15_ClosedStreamDestroyed ==
    \A r \in Rids :
        (res[r].pc = "done" /\ ~res[r].endedEmpty) => (res[r].quit /\ ~InRegistry(r))

\* C16: while the process runs, no client is a receiver of a registered
\* Ressource whose fan-out goroutine has ended: a registered Ressource with a
\* receiver is live or still inside its teardown.
C16_RegisteredIsLive ==
    ~panicked => \A r \in Registered : res[r].Receivers # <<>> => res[r].pc # "done"

\* C17: a fan-out goroutine whose push waits on a receiver's queue that takes
\* no more frames does not wait forever: it gets past that receiver (and goes
\* on to the others), unless the process has panicked.
C17_BadReceiverSkipped ==
    \A r \in 1..MaxDemands :
        (r \in Rids /\ Blocked(r)) ~> (panicked \/ (r \in Rids /\ ~Blocked(r)))

\* C18: the BulkWrite calls started are exactly the batches taken from the
\* broadcast channel, one call per batch in the order taken; the drain is
\* ready for the next batch whatever number of calls is in flight; and while
\* no call has returned, every batch taken has its call in flight.
C18_WritePerBatch ==
    /\ writes = [i \in 1..nBatches |-> i]
    /\ (drainpc = "range" /\ nBatches < MaxBatches) => ENABLED DrainBatch
    /\ returned = {} => Cardinality(InFlight) = nBatches

\* the sink has returned from no call and MaxBatches calls are in flight at once
C18_Witness ==
    /\ nBatches = MaxBatches
    /\ returned = {}
    /\ Cardinality(InFlight) = MaxBatches

\* C19: Unsubscribe and ClientLeave only take clients out of receiver lists:
\* they leave the registry and every Ressource's stream and goroutine as they
\* are; and a registered Ressource with no receiver whose goroutine waits for
\* its stream stays registered and un-quit for as long as the stream neither
\* produces a sample nor closes.
C19_TornDownOnlyByFanout ==
    [][/\ \A d \in Demands : \A c \in Clients :
              (HubUnsubscribe(d) \/ HubClientLeave(c)) =>
                  /\ UNCHANGED <<reg, heap>>
                  /\ \A r \in Rids : res'[r].quit = res[r].quit /\ res'[r].pc = res[r].pc
       /\ \A r \in Rids :
              (/\ res[r].pc = "recv" /\ res'[r].pc = "recv"
               /\ res[r].Receivers = <<>>
               /\ ~res[r].quit /\ InRegistry(r))
              => (~res'[r].quit /\ InRegistry(r)')]_vars

\* C20: an inventory call (Add, Stop, Remove) is made only when
\* Containers.Init has returned nil, and a BulkWrite call is started only when
\* DB.Init has returned nil.
C20_InitBeforeUse ==
    [][/\ Len(calls') > Len(calls) => "containers" \in inited
       /\ Len(writes') > Len(writes) => "db" \in inited]_vars

====
